---- MODULE Spec2Model ----
(***************************************************************************)
(* A model of serial-meter.c, the decoder of the TekPower TP4000ZC serial  *)
(* protocol: read_packet (the byte framing), decode_digit and              *)
(* print_display_number (the seven-segment digits), decode_attributes and  *)
(* print_attributes (the mode bits) and the loop of main.                  *)
(*                                                                         *)
(* The program is sequential.  It blocks in read() (pc = "read"); one      *)
(* action is one iteration of the loop of read_packet, which either stays  *)
(* in the loop or returns to main (pc = "ret").  One more action is what   *)
(* main does with the value returned, up to and including the next call   *)
(* of read_packet, which clears the buffer and blocks in read() again.     *)
(*                                                                         *)
(* `int byte = 0; read(fd, &byte, 1)` stores the byte read in the lowest   *)
(* addressed byte of the int: the model is of a little-endian build, where *)
(* byte is then the value 0..255 of the byte read.                         *)
(***************************************************************************)
EXTENDS Integers, Sequences, FiniteSets, TLC

VARIABLES
    pc,          \* "read": blocked in read() at line 145; "ret": read_packet
                 \* has returned to line 462; "exit": exit(0) was called
    buf,         \* main's buf[0..13], the array read_packet fills
    x,           \* read_packet's loop counter
    bytes_read,  \* read_packet's bytes_read
    byte,        \* read_packet's byte when it returns: the byte read last.
                 \* While blocked in read() it is dead (read() overwrites it
                 \* before any use) and kept 0.
    n,           \* main's n at line 465: what read_packet returned.  It is
                 \* dead while read_packet runs, and kept 0 there.
    attributes,  \* main's attributes in the step that computes it; it is dead
                 \* in every other step, and kept 0 there
    out,         \* what the step just taken wrote to stdout, as tokens
    shown,       \* history: the part of out that print_display_number wrote
    digits,      \* history: the values decode_digit returned in the step just taken
    decoded,     \* history: the buffer print_display_number was called with in
                 \* the step just taken (<<>> when it was not called)
    rcvd,        \* history: per tag 1..14, the low nibble of the byte read last
                 \* with that tag in this call of read_packet (-1: none)
    consumed,    \* history: the bytes read() delivered in this call of read_packet
    kind,        \* history: what the byte read() delivered in the step just
                 \* taken was, by the protocol ("none": the step read no byte)
    sender       \* the meter, where the stream is one of packets (lines 27-30):
                 \* the tag it sent last, whether the packet being sent has
                 \* left a tag out, how many packets it has ended, and how
                 \* many bytes the first, partial one had.  Idle where the
                 \* stream is of any bytes.

vars == <<pc, buf, x, bytes_read, byte, n, attributes, out, shown, digits,
          decoded, rcvd, consumed, kind, sender>>

----------------------------------------------------------------------------
(* C's operators on non-negative ints *)

RECURSIVE BitAnd(_, _)
BitAnd(a, b) ==
    IF a = 0 \/ b = 0 THEN 0
    ELSE (IF a % 2 = 1 /\ b % 2 = 1 THEN 1 ELSE 0) + 2 * BitAnd(a \div 2, b \div 2)

RECURSIVE BitOr(_, _)
BitOr(a, b) ==
    IF a = 0 THEN b
    ELSE IF b = 0 THEN a
    ELSE (IF a % 2 = 1 \/ b % 2 = 1 THEN 1 ELSE 0) + 2 * BitOr(a \div 2, b \div 2)

ShiftLeft(a, k) == a * 2^k

ShiftRight(a, k) == a \div 2^k

----------------------------------------------------------------------------
(* printf's conversions, as tokens *)

HexChars == <<"0", "1", "2", "3", "4", "5", "6", "7",
              "8", "9", "A", "B", "C", "D", "E", "F">>

DecChars == <<"0", "1", "2", "3", "4", "5", "6", "7", "8", "9">>

\* %X
RECURSIVE FmtHex(_)
FmtHex(v) ==
    IF v < 16 THEN <<HexChars[v + 1]>>
    ELSE FmtHex(v \div 16) \o <<HexChars[(v % 16) + 1]>>

\* %02X
FmtHex02(v) == IF v < 16 THEN <<"0">> \o FmtHex(v) ELSE FmtHex(v)

\* %d of a non-negative int
RECURSIVE FmtDec(_)
FmtDec(v) ==
    IF v < 10 THEN <<DecChars[v + 1]>>
    ELSE FmtDec(v \div 10) \o <<DecChars[(v % 10) + 1]>>

----------------------------------------------------------------------------
(* read_packet *)

\* a mutant of ClearBuf: nothing cleared
ClearBuf_None(b) == b

\* a mutant of ClearBuf: the last slot is left as it was
ClearBuf_Short(b) == [i \in DOMAIN b |-> IF i < 13 THEN 0 ELSE b[i]]

\* for (x = 0; x < 14; x++) buf[x] = 0;
ClearBuf(b) == [i \in DOMAIN b |-> IF i < 14 THEN 0 ELSE b[i]]

\* a mutant of LoopCond: the bound included
LoopCond_Le(i) == i <= 15

\* a mutant of LoopCond: one more iteration
LoopCond_16(i) == i < 16

\* for (x = 0; x < 15; x++)
LoopCond(i) == i < 15

\* idx = (byte >> 4) & 0xF
Idx(b) == BitAnd(ShiftRight(b, 4), 15)

\* a mutant of InvalidIdx: the tag 0xF is let through
InvalidIdx_Zero(i) == i = 0

\* (idx == 0) || (idx == 0xF)
InvalidIdx(i) == (i = 0) \/ (i = 15)

\* a mutant of StoreByte: a slot written once keeps its nibble
StoreByte_Keep(b, i, v) == IF b[i - 1] # 0 THEN b ELSE [b EXCEPT ![i - 1] = v % 16]

\* buf[idx - 1] = byte & 0xF
StoreByte(b, i, v) == [b EXCEPT ![i - 1] = BitAnd(v, 15)]

\* a mutant of LastByte: the last tag taken to be 0xF
LastByte_F(i) == i = 15

\* idx == 0xE
LastByte(i) == i = 14

\* a mutant of TooFew: all 14 bytes asked for
TooFew_14(r) == r < 14

\* bytes_read < 13
TooFew(r) == r < 13

MsgMeterOn == <<"Meter ON.\n">>

MsgInvalid(b) == <<"Read invalid byte 0x">> \o FmtHex02(b) \o <<"\n">>

MsgTooFew(r) == <<"Only read ">> \o FmtDec(r) \o <<" bytes of packet.\n">>

MsgTooMany == <<"Read too many bytes.\n">>

MsgEOF == <<"Read EOF\n">>

NoneRcvd == [t \in 1..14 |-> -1]

\* The protocol's bytes, lines 25-30: a single zero byte when the meter is
\* turned on; the upper four bits of a packet's byte are 1..14, its position,
\* and 14 is the last.
ByteKind(b) ==
    IF b = 0 THEN "zero"
    ELSE IF b \div 16 = 0 \/ b \div 16 = 15 THEN "invalid"
    ELSE IF b \div 16 = 14 THEN "last"
    ELSE "data"

\* byte == 0
MeterOn(b) == b = 0

\* a mutant of EnterReadPacket: the count and the loop index carried over
\* from the call before
EnterReadPacket_NoReset ==
    /\ pc' = "read"
    /\ byte' = 0
    /\ bytes_read' = bytes_read
    /\ buf' = ClearBuf(buf)
    /\ x' = x
    /\ rcvd' = NoneRcvd
    /\ consumed' = 0

\* The entry of read_packet, lines 134-143, up to the first read().
EnterReadPacket ==
    /\ pc' = "read"
    /\ byte' = 0
    /\ bytes_read' = 0
    /\ buf' = ClearBuf(buf)
    /\ x' = 0
    /\ rcvd' = NoneRcvd
    /\ consumed' = 0

\* return v from read_packet, having read the byte b last and printed msg:
\* main's n = read_packet(fd, buf)
Return(v, b, msg) ==
    /\ pc' = "ret"
    /\ n' = v
    /\ byte' = b
    /\ out' = msg

\* One iteration of the loop of read_packet: read() delivers the byte b.
ReadByte(b) ==
    /\ pc = "read"
    /\ consumed' = consumed + 1
    /\ kind' = ByteKind(b)
    /\ attributes' = 0
    /\ shown' = <<>>
    /\ digits' = <<>>
    /\ decoded' = <<>>
    /\ IF MeterOn(b)
       THEN /\ Return(-1, b, MsgMeterOn)
            /\ UNCHANGED <<buf, x, bytes_read, rcvd>>
       ELSE IF InvalidIdx(Idx(b))
       THEN /\ Return(-1, b, MsgInvalid(b))
            /\ UNCHANGED <<buf, x, bytes_read, rcvd>>
       ELSE /\ buf' = StoreByte(buf, Idx(b), b)
            /\ bytes_read' = bytes_read + 1
            /\ rcvd' = [rcvd EXCEPT ![b \div 16] = b % 16]
            /\ IF LastByte(Idx(b))
               THEN /\ x' = x
                    /\ IF TooFew(bytes_read + 1)
                       THEN Return(-1, b, MsgTooFew(bytes_read + 1))
                       ELSE Return(0, b, <<>>)
               ELSE /\ x' = x + 1
                    /\ IF LoopCond(x + 1)
                       THEN /\ pc' = "read"
                            /\ out' = <<>>
                            /\ UNCHANGED <<n, byte>>
                       ELSE Return(-1, b, MsgTooMany)

\* a mutant of ReadEOF: end of file returned to main as an error
ReadEOF_Retry ==
    /\ pc = "read"
    /\ pc' = "ret"
    /\ n' = -1
    /\ out' = MsgEOF
    /\ kind' = "none"
    /\ attributes' = 0
    /\ shown' = <<>>
    /\ digits' = <<>>
    /\ decoded' = <<>>
    /\ UNCHANGED <<buf, x, bytes_read, byte, rcvd, consumed, sender>>

\* read() returns n <= 0: end of file or an error.
ReadEOF ==
    /\ pc = "read"
    /\ pc' = "exit"
    /\ out' = MsgEOF
    /\ kind' = "none"
    /\ attributes' = 0
    /\ shown' = <<>>
    /\ digits' = <<>>
    /\ decoded' = <<>>
    /\ UNCHANGED <<buf, x, bytes_read, byte, n, rcvd, consumed, sender>>

----------------------------------------------------------------------------
(* decode_digit and print_display_number *)

lcd_segments == <<125, 5, 91, 31, 39, 62, 126, 21, 127, 63, 104, 0>>

\* a mutant of SegmentValue: the high bit of byte1 is not masked off
SegmentValue_F(byte1, byte2) == BitOr(ShiftLeft(BitAnd(byte1, 15), 4), byte2)

\* value = ((byte1 & 0x7) << 4) | byte2
SegmentValue(byte1, byte2) == BitOr(ShiftLeft(BitAnd(byte1, 7), 4), byte2)

\* for (n = 0; n < 12; n++) if (lcd_segments[n] == value) return n; return -1;
RECURSIVE Lookup(_, _)
Lookup(value, i) ==
    IF i >= 12 THEN -1
    ELSE IF lcd_segments[i + 1] = value THEN i
    ELSE Lookup(value, i + 1)

decode_digit(byte1, byte2) == Lookup(SegmentValue(byte1, byte2), 0)

\* a mutant of HighBit: the wrong bit tested
HighBit_4(v) == BitAnd(v, 4) # 0

\* buf[n] & 0x8
HighBit(v) == BitAnd(v, 8) # 0

\* a mutant of PrintMark: a decimal point is written for the first pair that
\* has one only
PrintMark_First(b, i) ==
    IF HighBit(b[i])
    THEN (IF i = 1 THEN <<"-">>
          ELSE IF \E j \in {3, 5, 7} : j < i /\ HighBit(b[j]) THEN <<>>
          ELSE <<".">>)
    ELSE <<>>

\* lines 260-266: the minus sign or the decimal point
PrintMark(b, i) ==
    IF HighBit(b[i])
    THEN (IF i = 1 THEN <<"-">> ELSE <<".">>)
    ELSE <<>>

\* lines 275-285
PrintVal(val) ==
    IF val < 10 THEN FmtDec(val)
    ELSE (IF val = 10 THEN <<"L">> ELSE <<>>)
         \o (IF val = 11 THEN <<" ">> ELSE <<>>)
         \o (IF val > 11 THEN <<"?">> ELSE <<>>)

MsgUnknownDigit(b, i) ==
    <<"Unknown digit ">> \o FmtHex(b[i]) \o <<" ">> \o FmtHex(b[i + 1]) \o <<"\n">>

\* a mutant of PrintFrom: the return -1 of line 271 left out
RECURSIVE PrintFrom_NoReturn(_, _, _, _)
PrintFrom_NoReturn(b, i, text, vals) ==
    IF ~(i < 8) THEN [ret |-> 0, text |-> text, vals |-> vals]
    ELSE LET val == decode_digit(b[i], b[i + 1])
             marked == text \o PrintMark(b, i)
         IN  IF val = -1
             THEN PrintFrom_NoReturn(b, i + 2,
                                     marked \o MsgUnknownDigit(b, i),
                                     Append(vals, val))
             ELSE PrintFrom_NoReturn(b, i + 2, marked \o PrintVal(val),
                                     Append(vals, val))

\* for (n = 1; n < 8; n += 2) { ... }: the loop from n = i on, with what was
\* printed (text) and the values decode_digit returned (vals) so far
RECURSIVE PrintFrom(_, _, _, _)
PrintFrom(b, i, text, vals) ==
    IF ~(i < 8) THEN [ret |-> 0, text |-> text, vals |-> vals]
    ELSE LET val == decode_digit(b[i], b[i + 1])
             marked == text \o PrintMark(b, i)
         IN  IF val = -1
             THEN [ret |-> -1,
                   text |-> marked \o MsgUnknownDigit(b, i),
                   vals |-> Append(vals, val)]
             ELSE PrintFrom(b, i + 2, marked \o PrintVal(val), Append(vals, val))

print_display_number(b) == PrintFrom(b, 1, <<>>, <<>>)

----------------------------------------------------------------------------
(* decode_attributes and print_attributes *)

attribute_table ==
    <<"(unknown 11)", "AUTO", "DC", "AC", "DIODE", "kilo", "nano", "micro",
      "beep", "mega", "Percent", "mili", "HOLD", "REL", "Ohms", "Farads",
      "(unknown 0xD1)", "Hertz", "Volts", "Amps", "(unknown E1)",
      "(unknown E2)", "DegreesC", "(unknown E8)">>

\* a mutant of AttrByte: the first four bits taken from buf[8]
AttrByte_8(bit) == (bit \div 4) + 8

\* a mutant of AttrByte: the fifth bit taken from buf[0] as well
AttrByte_Le(bit) == IF bit <= 4 THEN 0 ELSE (bit \div 4) + 8

\* if (bit < 4) byte = 0; else byte = (bit / 4) + 0x8;
AttrByte(bit) == IF bit < 4 THEN 0 ELSE (bit \div 4) + 8

\* for (bit = 0; bit < 24; bit++) ...: the loop from bit on
RECURSIVE AttrFrom(_, _, _)
AttrFrom(b, bit, acc) ==
    IF ~(bit < 24) THEN acc
    ELSE AttrFrom(b, bit + 1,
                  IF BitAnd(b[AttrByte(bit)], ShiftLeft(1, bit % 4)) # 0
                  THEN BitOr(acc, ShiftLeft(1, bit))
                  ELSE acc)

decode_attributes(b) == AttrFrom(b, 0, 0)

\* for (n = 0; n < 24; n++) if (attributes & (1 << n)) printf("%s ", ...)
RECURSIVE PrintAttrFrom(_, _)
PrintAttrFrom(a, i) ==
    IF ~(i < 24) THEN <<>>
    ELSE (IF BitAnd(a, ShiftLeft(1, i)) # 0
          THEN <<attribute_table[i + 1], " ">>
          ELSE <<>>) \o PrintAttrFrom(a, i + 1)

print_attributes(a) == PrintAttrFrom(a, 0)

----------------------------------------------------------------------------
(* main *)

\* if (n) continue;
MainContinue ==
    /\ pc = "ret"
    /\ n # 0
    /\ n' = 0
    /\ kind' = "none"
    /\ out' = <<>>
    /\ shown' = <<>>
    /\ digits' = <<>>
    /\ decoded' = <<>>
    /\ attributes' = 0
    /\ EnterReadPacket
    /\ UNCHANGED sender

\* lines 474-482, then the next read_packet
MainDecode ==
    /\ pc = "ret"
    /\ n = 0
    /\ LET r == print_display_number(buf)
       IN  /\ n' = 0
           /\ kind' = "none"
           /\ shown' = r.text
           /\ digits' = r.vals
           /\ decoded' = buf
           /\ IF r.ret # 0
              THEN /\ out' = r.text
                   /\ attributes' = 0
              ELSE /\ attributes' = decode_attributes(buf)
                   /\ out' = r.text \o <<" ">>
                               \o print_attributes(decode_attributes(buf))
                               \o <<"\n">>
    /\ EnterReadPacket
    /\ UNCHANGED sender

----------------------------------------------------------------------------
(* The byte stream *)

\* 27 3D 42 57 69 75 80 95 A2 B0 C4 D0 E8, the packet of lines 38-45
ExamplePacket == <<39, 61, 66, 87, 105, 117, 128, 149, 162, 176, 196, 208, 232>>

\* More bytes a stream may hold: 2F (the minus sign), 3C (with 27, an
\* unknown digit), E0
MoreBytes == <<47, 60, 224>>

\* How many of MoreBytes the streams draw from.
NumMore == 1

\* The bytes a stream is made of: the zero byte, two bytes with an invalid
\* tag (0F and F3), 12 (tag 1, AUTO), the example packet, and the first
\* NumMore of MoreBytes.
StreamBytes ==
    {0, 15, 243, 18}
    \cup {ExamplePacket[i] : i \in 1..Len(ExamplePacket)}
    \cup {MoreBytes[i] : i \in 1..NumMore}

\* The meter when the stream is not taken to be one of packets.
SenderIdle == [last |-> 0, skip |-> FALSE, pkt |-> -1, tail |-> 0]

Init ==
    /\ sender = SenderIdle
    /\ pc = "read"
    /\ buf = [i \in 0..13 |-> 0]
    /\ x = 0
    /\ bytes_read = 0
    /\ byte = 0
    /\ n = 0
    /\ attributes = 0
    /\ out = <<>>
    /\ shown = <<>>
    /\ digits = <<>>
    /\ decoded = <<>>
    /\ rcvd = NoneRcvd
    /\ consumed = 0
    /\ kind = "none"

Read == \E b \in StreamBytes : ReadByte(b) /\ UNCHANGED sender

Next ==
    \/ Read
    \/ ReadEOF
    \/ MainContinue
    \/ MainDecode

Spec == Init /\ [][Next]_vars

----------------------------------------------------------------------------
(* The decoder on its own: main at line 465 with a complete packet in buf *)

\* How many entries of lcd_segments the second to fourth digits draw from.
NumCodes == 2

\* The segment codes of the second to fourth digits: the first NumCodes
\* entries of lcd_segments, and 7C, which is not in the table.
DecodeCodes == {lcd_segments[i] : i \in 1..NumCodes} \cup {124}

\* The buffers read_packet returns 0 with, cut down: the first digit's pair
\* is any two nibbles; each other pair is one of DecodeCodes with the high
\* bit of its first nibble clear or set; the attribute nibbles are those of
\* the example packet (the first one 0: no byte with tag 1).
DecodeFrames ==
    {[i \in 0..13 |->
        CASE i = 1 -> b1
          [] i = 2 -> b2
          [] i = 3 -> (c2 \div 16) + h2
          [] i = 4 -> c2 % 16
          [] i = 5 -> (c3 \div 16) + h3
          [] i = 6 -> c3 % 16
          [] i = 7 -> (c4 \div 16) + h4
          [] i = 8 -> c4 % 16
          [] i = 0 -> 0
          [] OTHER -> ExamplePacket[i] % 16] :
        b1 \in 0..15, b2 \in 0..15,
        c2 \in DecodeCodes, c3 \in DecodeCodes, c4 \in DecodeCodes,
        h2 \in {0, 8}, h3 \in {0, 8}, h4 \in {0, 8}}

\* read_packet has read the 14 bytes of a packet, in sequence, and returned 0.
InitDecode ==
    /\ pc = "ret"
    /\ buf \in DecodeFrames
    /\ x = 13
    /\ bytes_read = 14
    /\ byte = 224 + buf[13]
    /\ n = 0
    /\ attributes = 0
    /\ out = <<>>
    /\ shown = <<>>
    /\ digits = <<>>
    /\ decoded = <<>>
    /\ rcvd = [t \in 1..14 |-> buf[t - 1]]
    /\ consumed = 14
    /\ kind = "last"
    /\ sender = SenderIdle

NextDecode == MainDecode

SpecDecode == InitDecode /\ [][NextDecode]_vars

----------------------------------------------------------------------------
(* decode_attributes on its own: main at line 465 with a complete packet in
   buf whose digits are all known, so that line 480 is reached *)

\* How many of the 24 attribute bits a packet has set (or, in the packets
\* with all but a few set, clear).
NumAttrBits == 1

\* The sets of at most k of the bit numbers 0..23.
RECURSIVE BitSets(_)
BitSets(k) ==
    IF k = 0 THEN {{}}
    ELSE LET less == BitSets(k - 1)
         IN  less \cup {S \cup {p} : S \in less, p \in 0..23}

\* The nibble of bits 4g..4g+3 of the set S of bit numbers.
NibbleOf(S, g) ==
    (IF 4 * g \in S THEN 1 ELSE 0) + (IF 4 * g + 1 \in S THEN 2 ELSE 0)
    + (IF 4 * g + 2 \in S THEN 4 ELSE 0) + (IF 4 * g + 3 \in S THEN 8 ELSE 0)

\* The buffers read_packet returns 0 with, cut down: the digits are those
\* of the example packet ("04.71"), the first one with or without the minus
\* sign, the last one 1 or blank; the six attribute nibbles (tags 1 and
\* 10..14) have at most NumAttrBits bits set, or at most NumAttrBits clear.
AttrFrames ==
    {[i \in 0..13 |->
        CASE i = 0 -> NibbleOf(S, 0)
          [] i = 1 -> 7 + h1
          [] i = 8 -> d4
          [] i \in 9..13 -> NibbleOf(S, i - 8)
          [] OTHER -> ExamplePacket[i] % 16] :
        S \in BitSets(NumAttrBits)
                \cup {(0..23) \ T : T \in BitSets(NumAttrBits)},
        h1 \in {0, 8}, d4 \in {5, 0}}

\* read_packet has read the 14 bytes of a packet, in sequence, and returned 0.
InitAttr ==
    /\ pc = "ret"
    /\ buf \in AttrFrames
    /\ x = 13
    /\ bytes_read = 14
    /\ byte = 224 + buf[13]
    /\ n = 0
    /\ attributes = 0
    /\ out = <<>>
    /\ shown = <<>>
    /\ digits = <<>>
    /\ decoded = <<>>
    /\ rcvd = [t \in 1..14 |-> buf[t - 1]]
    /\ consumed = 14
    /\ kind = "last"
    /\ sender = SenderIdle

NextAttr == MainDecode

SpecAttr == InitAttr /\ [][NextAttr]_vars

----------------------------------------------------------------------------
(* Resynchronisation: a stream of any bytes, then, from the start of some
   attempt on, the rest of one packet and whole packets after it *)

\* The bytes of the stream before the packets.
NoiseBytes == {0, 15, 39, 232}

\* How many packets the meter ends, the partial one counted.
MaxPackets == 3

\* The meter about to send the bytes after tag l of a packet (l = 14: a
\* whole packet next), a tag below l left out of it or not.
SenderTails ==
    {[last |-> l, skip |-> s, pkt |-> IF l = 14 THEN 1 ELSE 0, tail |-> 0] :
        l \in 1..14, s \in BOOLEAN}

\* Lines 27-30: a packet is 13 or 14 bytes, sent in sequence, the last with
\* tag 14. The tags the meter may send next: the one after the tag sent
\* last, or the one after that if the packet has left none out yet; 1 or 2
\* after the end of a packet.
NextTags(sd) ==
    LET base == IF sd.last = 14 THEN 0 ELSE sd.last
        skipped == sd.last # 14 /\ sd.skip
    IN  {t \in 1..14 : t = base + 1 \/ (~skipped /\ t = base + 2)}

\* The meter after sending a byte with tag t.
Sent(sd, t) ==
    [last |-> t,
     skip |-> IF sd.last = 14 THEN t = 2 ELSE (sd.skip \/ t = sd.last + 2),
     pkt  |-> IF t = 14 THEN sd.pkt + 1 ELSE sd.pkt,
     tail |-> IF sd.pkt = 0 THEN sd.tail + 1 ELSE sd.tail]

\* read() delivers a byte of the stream before the packets.
ReadNoise ==
    /\ sender.pkt = -1
    /\ \E b \in NoiseBytes : ReadByte(b)
    /\ UNCHANGED sender

\* Between two attempts, the meter is found to be sending packets, at some
\* byte of one; the program does nothing.
Resync ==
    /\ sender.pkt = -1
    /\ pc = "read"
    /\ consumed = 0
    /\ sender' \in SenderTails
    /\ UNCHANGED <<pc, buf, x, bytes_read, byte, n, attributes, out, shown,
                   digits, decoded, rcvd, consumed, kind>>

\* read() delivers the next byte of a packet.
ReadSent ==
    /\ sender.pkt >= 0
    /\ sender.last = 14 => sender.pkt < MaxPackets
    /\ \E b \in StreamBytes :
          /\ (b \div 16) \in NextTags(sender)
          /\ ReadByte(b)
          /\ sender' = Sent(sender, b \div 16)

NextResync ==
    \/ ReadNoise
    \/ Resync
    \/ ReadSent
    \/ MainContinue
    \/ MainDecode

SpecResync == Init /\ [][NextResync]_vars

----------------------------------------------------------------------------
(* What the claims speak of *)

\* The outcomes of a framing attempt, read off what read_packet returned
\* and printed.
CompleteFrame == pc = "ret" /\ n = 0

PowerOnSignal == pc = "ret" /\ n = -1 /\ out = <<"Meter ON.\n">>

InvalidTagError ==
    pc = "ret" /\ n = -1 /\ Len(out) > 0 /\ out[1] = "Read invalid byte 0x"

ShortFrameError == pc = "ret" /\ n = -1 /\ Len(out) > 0 /\ out[1] = "Only read "

TooLongError == pc = "ret" /\ n = -1 /\ out = <<"Read too many bytes.\n">>

\* The tags of the bytes accepted so far in this attempt.
TagsRcvd == {t \in 1..14 : rcvd[t] # -1}

\* Every byte read in this attempt was non-zero and had a tag in 1..14 that
\* no byte before it had.
DistinctTags == Cardinality(TagsRcvd) = consumed

\* A framing attempt begins: no byte accepted, every slot zero.
FreshAttempt ==
    /\ pc = "read"
    /\ bytes_read = 0
    /\ x = 0
    /\ \A i \in 0..13 : buf[i] = 0

\* C1: when the bytes read in an attempt are 13 or 14 non-zero bytes with
\* pairwise distinct tags in 1..14, the last one (only) with tag 14, the
\* attempt read all of them and ended with CompleteFrame, every slot holding
\* the low nibble of the byte received with its tag, or 0 when none was; and
\* the attempt does not end while such bytes without tag 14 arrive.
C1_ValidPacketCompletes ==
    /\ (consumed \in {13, 14} /\ DistinctTags /\ rcvd[14] # -1)
          => /\ CompleteFrame
             /\ \A t \in 1..14 :
                   buf[t - 1] = (IF rcvd[t] = -1 THEN 0 ELSE rcvd[t])
    /\ (pc # "exit" /\ DistinctTags /\ rcvd[14] = -1) => pc = "read"

\* a packet of 13 bytes, the byte with tag 1 absent, completed
C1_Witness ==
    /\ CompleteFrame
    /\ consumed = 13
    /\ DistinctTags
    /\ rcvd[1] = -1
    /\ buf[13] = 8

\* C2: whenever CompleteFrame is emitted, the byte with tag 14 was the last
\* one read and at least 13 of the 14 slots were written by a byte of this
\* attempt.
C2_CompleteHas13Slots ==
    CompleteFrame => (kind = "last" /\ Cardinality(TagsRcvd) >= 13)

\* C3: a zero byte, whenever it is read, ends the attempt with PowerOnSignal,
\* and the next attempt starts with no byte accepted and every slot zero.
C3_ZeroByte ==
    /\ [](kind = "zero" => PowerOnSignal)
    /\ [][kind = "zero" => FreshAttempt']_vars

\* a zero byte read after 14 accepted bytes
C3_Witness == kind = "zero" /\ PowerOnSignal /\ consumed = 15 /\ bytes_read = 14

\* C4: a non-zero byte with tag 0 or 15, whenever it is read, ends the
\* attempt with the invalid-tag error, no slot written and the count as it
\* was, and the next attempt starts with no byte accepted and every slot zero.
C4_InvalidTag ==
    /\ [][kind' = "invalid" =>
            /\ InvalidTagError'
            /\ byte' # 0 /\ byte' \div 16 \in {0, 15}
            /\ buf' = buf
            /\ bytes_read' = bytes_read]_vars
    /\ [][kind = "invalid" => FreshAttempt']_vars

\* a byte with tag 15 read after 13 accepted bytes
C4_Witness ==
    /\ kind = "invalid"
    /\ InvalidTagError
    /\ byte \div 16 = 15
    /\ bytes_read = 13

\* C5: a byte with tag 14 ends the attempt: with fewer than 13 bytes
\* accepted, itself included, the outcome is the short-frame error;
\* otherwise it is CompleteFrame.  No attempt goes on after a byte with tag 14.
C5_LastByteEnds ==
    /\ kind = "last" =>
          /\ pc = "ret"
          /\ byte \div 16 = 14
          /\ IF bytes_read < 13 THEN ShortFrameError ELSE CompleteFrame
    /\ pc = "read" => rcvd[14] = -1

\* a byte with tag 14 read as the 12th byte: one short
C5_Witness == kind = "last" /\ bytes_read = 12 /\ ShortFrameError

C7_Complete13or14 == CompleteFrame => consumed \in {13, 14}

\* The nibbles 7 D 2 7 9 5 0 5 2 0 4 0 8 of the example, after a 0 for the
\* absent byte with tag 1.
C8_Frame == <<0, 7, 13, 2, 7, 9, 5, 0, 5, 2, 0, 4, 0, 8>>

\* C8: the 13 bytes 27 3D 42 57 69 75 80 95 A2 B0 C4 D0 E8, read by a fresh
\* attempt, end it with CompleteFrame; decoding that frame gives the digits
\* 0 4 7 1, no sign, one decimal point, after the second digit ("04.71"), and
\* exactly the attributes kilo, Ohms and unknown-E8 (bits 5, 14 and 23).
C8_Example ==
    /\ (consumed = 13 /\ rcvd[1] = -1
          /\ \A t \in 2..14 : rcvd[t] = C8_Frame[t])
          => (CompleteFrame /\ \A i \in 0..13 : buf[i] = C8_Frame[i + 1])
    /\ (decoded # <<>> /\ \A i \in 0..13 : decoded[i] = C8_Frame[i + 1])
          => /\ digits = <<0, 4, 7, 1>>
             /\ shown = <<"0", "4", ".", "7", "1">>
             /\ attributes = 2^5 + 2^14 + 2^23
             /\ out = <<"0", "4", ".", "7", "1", " ", "kilo", " ", "Ohms", " ",
                        "(unknown E8)", " ", "\n">>

\* the example's frame, decoded
C8_Witness ==
    /\ decoded # <<>>
    /\ \A i \in 0..13 : decoded[i] = C8_Frame[i + 1]
    /\ Len(out) = 13

\* The frame decoded in the step just taken had four known digits.
AllDigitsValid ==
    /\ decoded # <<>>
    /\ Len(digits) = 4
    /\ \A k \in 1..4 : digits[k] # -1

\* Bit 3 of the first nibble of the k-th digit pair of the frame decoded.
PairBit(k) == (decoded[2 * k - 1] \div 8) % 2 = 1

IsMark(tok) == tok = "-" \/ tok = "."

\* Where the k-th digit is in what print_display_number wrote.
DigitPos(k) ==
    CHOOSE i \in 1..Len(shown) :
        /\ ~IsMark(shown[i])
        /\ Cardinality({j \in 1..i : ~IsMark(shown[j])}) = k

\* C9, as claimed: bit 3 of the first pair is the minus sign; bit 3 of pair k,
\* k in 2..4, puts a decimal point after the digit of that pair.
C9_Original ==
    AllDigitsValid =>
        /\ PairBit(1) <=> shown[1] = "-"
        /\ \A k \in 2..4 :
              PairBit(k) <=>
                  (DigitPos(k) < Len(shown) /\ shown[DigitPos(k) + 1] = ".")

\* C9, amended: bit 3 of the first pair is the minus sign; bit 3 of pair k,
\* k in 2..4, puts a decimal point before the digit of that pair, that is
\* between digit k - 1 and digit k; nothing else is written but the digits.
C9_PointBeforeDigit ==
    AllDigitsValid =>
        /\ PairBit(1) <=> shown[1] = "-"
        /\ \A k \in 2..4 : PairBit(k) <=> shown[DigitPos(k) - 1] = "."
        /\ \A k \in 2..4 : shown[DigitPos(k) - 1] # "-"
        /\ Len(shown) = 4 + Cardinality({k \in 1..4 : PairBit(k)})

\* a negative value with the point before the third digit
C9_Witness ==
    /\ AllDigitsValid
    /\ PairBit(1) /\ ~PairBit(2) /\ PairBit(3) /\ ~PairBit(4)
    /\ shown[1] = "-"
    /\ shown[4] = "."
    /\ Len(shown) = 6

\* The table of C10: the codes of 0..9, OVERFLOW and BLANK.
C10_Table == <<125, 5, 91, 31, 39, 62, 126, 21, 127, 63, 104, 0>>

\* The index of a segment code in the table of C10; -1 (INVALID) for a code
\* that is not in it.
C10_Index(code) ==
    IF \E k \in 0..11 : C10_Table[k + 1] = code
    THEN CHOOSE k \in 0..11 : C10_Table[k + 1] = code
    ELSE -1

\* C10: the digit decoded from two nibbles is the index in the table of the
\* code ((byte1 mod 8) * 16 + byte2), or INVALID when the table does not hold
\* it (which, byte1 and byte2 ranging over all nibbles, is so for every code
\* but the table's 12); the program's table holds the decoded code at the
\* index decoded, and no code twice; bit 3 of byte1 does not change the result.
C10_DecodeDigit ==
    decoded # <<>> =>
        /\ digits[1] = C10_Index((decoded[1] % 8) * 16 + decoded[2])
        /\ digits[1] # -1 =>
              /\ lcd_segments[digits[1] + 1] = (decoded[1] % 8) * 16 + decoded[2]
              /\ \A k \in 0..11 :
                    lcd_segments[k + 1] = lcd_segments[digits[1] + 1]
                        => k = digits[1]
        /\ digits[1] = decode_digit((decoded[1] + 8) % 16, decoded[2])

\* OVERFLOW ("L", code 68) decoded from a pair with bit 3 of byte1 set
C10_Witness ==
    /\ decoded # <<>>
    /\ decoded[1] = 14
    /\ decoded[2] = 8
    /\ digits[1] = 10

\* The frame index the claim gives for attribute bit nn.
C11_Slot(nn) == IF nn < 4 THEN 0 ELSE (nn \div 4) + 8

\* Bit k of v.
BitOf(v, k) == (v \div (2 ^ k)) % 2

\* The frame f with bit k of slot i flipped.
FlipBit(f, i, k) ==
    [f EXCEPT ![i] = IF BitOf(@, k) = 1 THEN @ - 2 ^ k ELSE @ + 2 ^ k]

\* C11: the attribute set decoded from a frame (one whose digits are all
\* known: main decodes the attributes of no other) has 24 bits, bit nn being
\* bit nn % 4 of the nibble at frame index (nn < 4 ? 0 : nn / 4 + 8); the 24
\* bits named so are 24 different bits of the nibbles at indices 0 and 9..13;
\* flipping one of them in the frame flips that attribute bit and no other;
\* changing a nibble at an index in 1..8 changes no attribute.
C11_AttributeBits ==
    AllDigitsValid =>
        /\ attributes \in 0..(2 ^ 24 - 1)
        /\ \A nn \in 0..23 :
              /\ BitOf(attributes, nn) = BitOf(decoded[C11_Slot(nn)], nn % 4)
              /\ C11_Slot(nn) \in {0, 9, 10, 11, 12, 13}
              /\ \A mm \in 0..23 :
                    (C11_Slot(mm) = C11_Slot(nn) /\ mm % 4 = nn % 4) => mm = nn
              /\ decode_attributes(FlipBit(decoded, C11_Slot(nn), nn % 4))
                    = IF BitOf(attributes, nn) = 1
                      THEN attributes - 2 ^ nn
                      ELSE attributes + 2 ^ nn
        /\ \A i \in 1..8 :
              decode_attributes([decoded EXCEPT ![i] = 15 - @]) = attributes

\* a negative value with Hertz (bit 1 of the nibble with tag 13) and no other
\* attribute
C11_Witness ==
    /\ AllDigitsValid
    /\ decoded[12] = 2
    /\ attributes = 2 ^ 17
    /\ out = <<"-", "0", "4", ".", "7", "1", " ", "Hertz", " ", "\n">>

\* The segment code of the k-th digit pair of the frame decoded.
PairCode(k) == (decoded[2 * k - 1] % 8) * 16 + decoded[2 * k]

\* The first digit pair of the frame decoded that is not in the table; 0
\* when all four are.
FirstInvalid ==
    IF \E k \in 1..4 : C10_Index(PairCode(k)) = -1
    THEN CHOOSE k \in 1..4 :
            /\ C10_Index(PairCode(k)) = -1
            /\ \A j \in 1..(k - 1) : C10_Index(PairCode(j)) # -1
    ELSE 0

NibbleChars ==
    <<"0", "1", "2", "3", "4", "5", "6", "7", "8", "9", "A", "B", "C", "D", "E", "F">>

C13_EOFTerminal ==
    /\ [](pc = "exit" =>
            /\ out = <<"Read EOF\n">>
            /\ kind = "none"
            /\ decoded = <<>> /\ digits = <<>> /\ shown = <<>>
            /\ ~CompleteFrame /\ ~PowerOnSignal
            /\ ~InvalidTagError /\ ~ShortFrameError /\ ~TooLongError)
    /\ [](out = <<"Read EOF\n">> => pc = "exit")
    /\ [][pc' = "exit" =>
            /\ pc = "read"
            /\ buf' = buf /\ bytes_read' = bytes_read /\ x' = x
            /\ consumed' = consumed /\ rcvd' = rcvd]_vars
    /\ [][pc # "exit"]_vars

\* end of file after the first seven bytes of the example packet
C13_Witness ==
    /\ pc = "exit"
    /\ consumed = 7
    /\ bytes_read = 7
    /\ \A t \in 2..8 : rcvd[t] = C8_Frame[t]
    /\ out = <<"Read EOF\n">>

\* The pairs 2..4 whose digit has a decimal point written with it.
PointsShown == {k \in 2..4 : shown[DigitPos(k) - 1] = "."}

\* C14: for a frame with four known digits, the pairs 2..4 a decimal point is
\* written for are exactly those with bit 3 of their first nibble set, any
\* number of them at once, one point each.
C14_PointsIndependent ==
    AllDigitsValid =>
        /\ PointsShown = {k \in 2..4 : PairBit(k)}
        /\ Cardinality({i \in 1..Len(shown) : shown[i] = "."})
              = Cardinality({k \in 2..4 : PairBit(k)})

\* 0000 with a point at each of the pairs 2, 3 and 4, and no sign
C14_Witness ==
    /\ AllDigitsValid
    /\ ~PairBit(1) /\ PairBit(2) /\ PairBit(3) /\ PairBit(4)
    /\ shown = <<"0", ".", "0", ".", "0", ".", "0">>

\* The buffer holds the nibbles of this attempt's bytes and zeroes, nothing
\* of an earlier attempt.
OwnNibblesOnly ==
    \A t \in 1..14 : buf[t - 1] = IF rcvd[t] = -1 THEN 0 ELSE rcvd[t]

\* C15: whatever an attempt ended with (CompleteFrame, decoded or not,
\* PowerOnSignal or an error) and whatever it left in the buffer and the
\* counts, the step of main that follows puts read_packet's state at the
\* same values as at the start of the program: count and loop index 0, byte
\* 0, every slot 0; and throughout an attempt the slots hold nibbles of that
\* attempt's bytes only and the count counts that attempt's bytes only. So
\* what an attempt does depends on its own bytes alone.
C15_NoLeak ==
    /\ [](Init => FreshAttempt /\ byte = 0 /\ consumed = 0)
    /\ [][pc = "ret" =>
            (FreshAttempt' /\ byte' = 0 /\ consumed' = 0 /\ rcvd' = NoneRcvd)]_vars
    /\ [](OwnNibblesOnly)
    /\ [](pc = "read" => bytes_read = consumed /\ x = consumed)
    /\ [](pc = "ret" =>
            bytes_read = (IF kind \in {"zero", "invalid"}
                          THEN consumed - 1 ELSE consumed))

\* an attempt ended with too many bytes, the count at 15 and slots written
C15_Witness ==
    /\ TooLongError
    /\ bytes_read = 15
    /\ buf[1] = 15
    /\ buf[9] = 2

\* How many of the outcomes the returned attempt has.
OutcomeCount ==
    Cardinality({o \in {"complete", "poweron", "invalid", "short", "long"} :
        \/ o = "complete" /\ CompleteFrame
        \/ o = "poweron" /\ PowerOnSignal
        \/ o = "invalid" /\ InvalidTagError
        \/ o = "short" /\ ShortFrameError
        \/ o = "long" /\ TooLongError})

\* The slots in which two buffers differ.
SlotsChanged(b, c) == {i \in 0..13 : b[i] # c[i]}

\* C16: an attempt reads one byte per step and has ended by its 15th byte:
\* an attempt still reading has read at most 14, one that returned has read
\* 1 to 15 and has exactly one of the outcomes CompleteFrame, PowerOnSignal
\* and the three framing errors; the count of accepted bytes is in 0..15;
\* a byte is stored only when its tag is in 1..14, in one slot of 0..13, and
\* the buffer always has exactly the slots 0..13.
C16_Bounded ==
    /\ [](consumed \in 0..15 /\ bytes_read \in 0..15 /\ x \in 0..15)
    /\ [](pc = "read" => consumed <= 14 /\ OutcomeCount = 0)
    /\ [](pc = "ret" => consumed \in 1..15 /\ OutcomeCount = 1)
    /\ [](DOMAIN buf = 0..13)
    /\ [][pc = "read" /\ pc' # "exit" => consumed' = consumed + 1]_vars
    /\ [][pc = "read" /\ bytes_read' = bytes_read + 1 =>
            /\ kind' \in {"data", "last"}
            /\ \E t \in 1..14 :
                  /\ rcvd'[t] # -1
                  /\ SlotsChanged(buf, buf') \subseteq {t - 1}
                  /\ buf'[t - 1] \in 0..15]_vars
    /\ [][pc = "read" /\ pc' # "exit" /\ bytes_read' # bytes_read + 1 =>
            /\ kind' \in {"zero", "invalid"}
            /\ bytes_read' = bytes_read
            /\ buf' = buf]_vars

\* the longest attempt there is: 15 bytes, the last one with tag 14
C16_Witness ==
    /\ CompleteFrame
    /\ kind = "last"
    /\ consumed = 15
    /\ bytes_read = 15
    /\ x = 14

\* The stream has become one of packets.
Packets == sender.pkt >= 0

\* C17: no outcome of an attempt ends the program: main calls read_packet
\* again, reading no byte itself, and every byte of the stream is read by
\* one step of one attempt. Once the stream, from the first byte of an
\* attempt on, is the rest of a packet and then whole packets: every attempt
\* ends on the last byte of a packet and the next one starts on the first
\* byte of the next packet; the attempt that reads the rest of the first
\* packet ends with CompleteFrame when that has 13 bytes or more and with
\* the short-frame error otherwise; every attempt after it reads one whole
\* packet and ends with CompleteFrame; so at most one attempt fails, and
\* CompleteFrame is returned once per packet, by the step that reads its
\* last byte.
C17_Resync ==
    /\ [][pc = "ret" => (pc' = "read" /\ consumed' = 0 /\ sender' = sender)]_vars
    /\ [][Packets /\ sender' # sender =>
            /\ pc = "read"
            /\ consumed' = consumed + 1
            /\ rcvd'[sender'.last] # -1]_vars
    /\ [](Packets /\ pc = "ret" => kind = "last" /\ sender.last = 14)
    /\ [](Packets /\ pc = "read" /\ sender.pkt >= 1 =>
            (consumed = 0 <=> sender.last = 14))
    /\ [](Packets /\ pc = "ret" /\ sender.pkt = 1 =>
            /\ consumed = sender.tail
            /\ sender.tail >= 13 => CompleteFrame
            /\ sender.tail < 13 => ShortFrameError)
    /\ [](Packets /\ pc = "ret" /\ sender.pkt >= 2 =>
            /\ CompleteFrame
            /\ consumed \in {13, 14}
            /\ DistinctTags)
    /\ [][Packets /\ sender.pkt >= 1 =>
            (sender'.pkt = sender.pkt + 1 <=> (pc = "read" /\ CompleteFrame'))]_vars

\* after an error and the last five bytes of a packet (an attempt that
\* failed), the second whole packet, one of 13 bytes, is complete
C17_Witness ==
    /\ sender.tail = 5
    /\ sender.pkt = 3
    /\ CompleteFrame
    /\ consumed = 13
    /\ rcvd[1] = -1

\* C18: a byte with a tag in 1..14 is accepted whatever was received before
\* it: it adds one to the count also when its tag was received already in
\* this attempt, and its nibble replaces the one in its slot, so that every
\* slot written holds the nibble of the byte received last with its tag; an
\* attempt ended by a byte with tag 14 is complete when it read 13 bytes or
\* more and short when it read fewer, whichever tags they had and in
\* whichever order they came.
C18_CountsBytes ==
    /\ [][pc = "read" /\ kind' \in {"data", "last"} =>
            bytes_read' = bytes_read + 1]_vars
    /\ [][pc = "read" /\ kind' = "data" /\ TagsRcvd' = TagsRcvd =>
            /\ bytes_read' = bytes_read + 1
            /\ \A i \in 0..13 : rcvd' [i + 1] = rcvd[i + 1] => buf'[i] = buf[i]
            /\ \A i \in 0..13 : rcvd' [i + 1] # rcvd[i + 1] => buf'[i] = rcvd'[i + 1]]_vars
    /\ [](\A t \in 1..14 : rcvd[t] # -1 => buf[t - 1] = rcvd[t])
    /\ [](pc = "ret" /\ kind = "last" =>
            /\ bytes_read = consumed
            /\ CompleteFrame <=> consumed >= 13
            /\ ShortFrameError <=> consumed < 13)

\* twelve bytes with tag 2, the last of them 2F, and E8: complete, slot 1
\* holding F
C18_Witness ==
    /\ CompleteFrame
    /\ consumed = 13
    /\ TagsRcvd = {2, 14}
    /\ buf[1] = 15
    /\ bytes_read = 13

====
